---- MODULE Spec2Model ----
(***************************************************************************)
(* State-machine model of the StudyBuilder front end's session store       *)
(* (studybuilder/src/stores/studies-general.js) and of the controlled      *)
(* terminology resource client (studybuilder/src/api/controlledTerminology *)
(* .js).  The store is a Pinia store: its fields are the record `state`,   *)
(* the browser's localStorage is `localStorage`, and every HTTP call that  *)
(* has been issued and not yet answered is a record of `pending`.  Store   *)
(* actions and promise continuations run to completion, one at a time      *)
(* (single-threaded event loop); responses arrive in any order.            *)
(***************************************************************************)
EXTENDS Integers, Sequences, FiniteSets, TLC

VARIABLES
  state,         \* the store's fields (state: () => ({...}))
  localStorage,  \* the value under the key 'selectedStudy', or NoItem
  pending,       \* HTTP calls in flight, each with the continuation it resumes
  nextId,        \* number of HTTP calls issued so far (the next call's id - 1)
  reloading,     \* document.location.reload() was called, the page not yet gone
  calls,         \* number of store actions invoked so far
  call,          \* history: the last store action invoked and the answers to its calls
  last           \* history: the kind of the last step (call, answer, getter read)

vars == <<state, localStorage, pending, nextId, reloading, calls, call, last>>

----------------------------------------------------------------------------
(* Bounds of the model *)

\* store actions invoked in one behaviour
MaxCalls == 2
\* HTTP calls in flight at a time
MaxPending == 4
\* length of a reference collection
MaxLen == 3

----------------------------------------------------------------------------
(* JavaScript values *)

\* null, where an object is expected
Null == [null |-> TRUE]
\* null and undefined as the value of a leaf property; a key that is absent
\* reads as undefined, so an absent key and an undefined one are one value here
JNull == "null"
Undefined == "undefined"
\* localStorage.getItem of a key that is not stored
NoItem == << >>

Study(uid, number, id, acronym, version) ==
  [uid |-> uid,
   current_metadata |->
     [identification_metadata |->
        [study_number |-> number, study_id |-> id, study_acronym |-> acronym],
      version_metadata |-> [version_number |-> version]]]

\* a study with a study number
StudyA == Study("Study_000001", "0001", "NN-0001", JNull, "1")
\* an acronym-only study: study_number is null
StudyB == Study("Study_000002", JNull, JNull, "ACR-B", "2")
\* an acronym-only draft study whose study_number and study_id keys are absent
StudyC == Study("Study_000003", Undefined, Undefined, "ACR-C", JNull)
\* an object without current_metadata
StudyBad == [uid |-> "Study_000009"]

\* the studies of the accessor checks, and those the selection is drawn from
Studies == {StudyA, StudyB, StudyC}
SelectableStudies == {StudyA, StudyC}
StudyObjs == SelectableStudies \cup {StudyBad}

\* studyObj.current_metadata.version_metadata.version_number can be read
HasVersion(studyObj) == "current_metadata" \in DOMAIN studyObj

----------------------------------------------------------------------------
(* JSON.stringify / JSON.parse of a study object.  The text is the sequence *)
(* of its leaf properties, <<key, value>>, in property order; a property    *)
(* whose value is undefined is left out, as JSON.stringify does.            *)

Leaves(studyObj) ==
  <<
    <<"uid", studyObj.uid>>,
    <<"study_number", studyObj.current_metadata.identification_metadata.study_number>>,
    <<"study_id", studyObj.current_metadata.identification_metadata.study_id>>,
    <<"study_acronym", studyObj.current_metadata.identification_metadata.study_acronym>>,
    <<"version_number", studyObj.current_metadata.version_metadata.version_number>>
  >>

JSONstringify_null(studyObj) ==
  SelectSeq(Leaves(studyObj), LAMBDA kv : kv[2] # Undefined /\ kv[2] # JNull)

JSONstringify(studyObj) ==
  SelectSeq(Leaves(studyObj), LAMBDA kv : kv[2] # Undefined)

\* reading property `key` of the parsed text
Prop(text, key) ==
  IF \E i \in 1..Len(text) : text[i][1] = key
  THEN text[CHOOSE i \in 1..Len(text) : text[i][1] = key][2]
  ELSE Undefined

JSONparse(text) ==
  Study(Prop(text, "uid"), Prop(text, "study_number"), Prop(text, "study_id"),
        Prop(text, "study_acronym"), Prop(text, "version_number"))

----------------------------------------------------------------------------
(* The store *)

CollectionFields ==
  {"studyTypes", "trialIntentTypes", "trialTypes", "trialPhases",
   "interventionTypes", "snomedTerms", "sexOfParticipants",
   "trialBlindingSchemas", "controlTypes", "interventionModels", "units",
   "nullValues", "objectiveLevels", "endpointLevels", "endpointSubLevels",
   "allUnits"}

PreferenceFields ==
  {"studyPreferredTimeUnit", "soaPreferredTimeUnit", "soaPreferences"}

InitialState ==
  [selectedStudy |-> Null,
   selectedStudyVersion |-> JNull,
   studyPreferredTimeUnit |-> Null,
   soaPreferredTimeUnit |-> Null,
   soaPreferences |-> Null,
   studyTypes |-> << >>,
   trialIntentTypes |-> << >>,
   trialTypes |-> << >>,
   trialPhases |-> << >>,
   interventionTypes |-> << >>,
   snomedTerms |-> << >>,
   sexOfParticipants |-> << >>,
   trialBlindingSchemas |-> << >>,
   controlTypes |-> << >>,
   interventionModels |-> << >>,
   units |-> << >>,
   nullValues |-> << >>,
   objectiveLevels |-> << >>,
   endpointLevels |-> << >>,
   endpointSubLevels |-> << >>,
   allUnits |-> << >>]

----------------------------------------------------------------------------
(* HTTP calls and the server's answers *)

\* A call in flight.  `caller` says what the code that called the store action
\* holds: "awaits" when the action returned the promise chained on this call,
\* "detached" when the action returned without it.
Request(id, api, arg, body, protocolSoa, caller) ==
  [id |-> id, api |-> api, arg |-> arg, body |-> body,
   protocolSoa |-> protocolSoa, caller |-> caller]

TimeUnits == {"UnitDefinition_day", "UnitDefinition_week"}

SoaFlagChoices ==
  {[show_epochs |-> TRUE, show_milestones |-> FALSE, baseline_as_time_zero |-> FALSE],
   [show_epochs |-> FALSE, show_milestones |-> TRUE, baseline_as_time_zero |-> TRUE]}

TimeUnitData(uid, timeUnitUid) ==
  [study_uid |-> uid, time_unit_uid |-> timeUnitUid]

SoaPreferencesData(uid, flags) ==
  [study_uid |-> uid, show_epochs |-> flags.show_epochs,
   show_milestones |-> flags.show_milestones,
   baseline_as_time_zero |-> flags.baseline_as_time_zero]

\* What a successful answer to call r may carry as resp.data: the study's
\* record for a read (one sample record a study and a resource), the record
\* as patched for an update.
StudyResponses(r) ==
  CASE r.api = "study.getStudy" -> {[uid |-> r.arg]}
    [] r.api = "study.getStudyPreferredTimeUnit"
         -> {TimeUnitData(r.arg, "UnitDefinition_day")}
    [] r.api = "study.getSoAPreferredTimeUnit"
         -> {TimeUnitData(r.arg, "UnitDefinition_week")}
    [] r.api = "study.updateStudyPreferredTimeUnit"
         -> {TimeUnitData(r.arg, r.body.unit_definition_uid)}
    [] r.api = "study.getSoAPreferences"
         -> {SoaPreferencesData(r.arg, [show_epochs |-> TRUE, show_milestones |-> TRUE,
                                        baseline_as_time_zero |-> FALSE])}
    [] r.api = "study.updateSoaPreferences" -> {SoaPreferencesData(r.arg, r.body)}
    [] OTHER -> {}

StudyApis ==
  {"study.getStudy", "study.getStudyPreferredTimeUnit",
   "study.getSoAPreferredTimeUnit", "study.getSoAPreferences",
   "study.updateStudyPreferredTimeUnit", "study.updateSoaPreferences"}

\* The record of a store action's invocation: its argument, whether it threw,
\* what `await action(...)` in the calling code has seen when the action
\* returns ("fulfilled": it returned no promise, the await is over;
\* "pending": it returned a promise not yet settled; "rejected": it threw),
\* whether no HTTP call was in flight when it was invoked, the HTTP calls it
\* issued, and the successful answers those have had so far.
Call(op, arg, flag, threw, awaited, issued) ==
  [op |-> op, arg |-> arg, flag |-> flag, threw |-> threw, awaited |-> awaited,
   alone |-> pending = {}, issued |-> issued, fulfilled |-> {}]

\* the record of the last invocation after a successful answer to r: the
\* promise an action returned is fulfilled when its continuation has run
Answered(c, r, data) ==
  IF r \in c.issued
  THEN [c EXCEPT !.fulfilled = @ \cup {<<r, data>>},
                 !.awaited = IF r.caller = "awaits" THEN "fulfilled" ELSE @]
  ELSE c

\* ... and after a failure of r: the promise an action returned is rejected,
\* but for initialize, whose catch handles the failure
Failed(c, r) ==
  IF r \in c.issued /\ r.caller = "awaits"
  THEN [c EXCEPT !.awaited = IF r.api = "study.getStudy" THEN "fulfilled"
                             ELSE "rejected"]
  ELSE c

----------------------------------------------------------------------------
(* unselectStudy() *)

UnselectedState_keep(s) == s

UnselectedState_cleared(s) ==
  [s EXCEPT !.selectedStudy = Null, !.selectedStudyVersion = JNull,
            !.studyPreferredTimeUnit = Null, !.soaPreferredTimeUnit = Null,
            !.soaPreferences = Null]

UnselectedState(s) == [s EXCEPT !.selectedStudy = Null]

RemovedItem_keep(item) == item

RemovedItem(item) == NoItem

UnselectStudy ==
  /\ ~reloading
  /\ calls < MaxCalls
  /\ state' = UnselectedState(state)
  /\ localStorage' = RemovedItem(localStorage)
  /\ calls' = calls + 1
  /\ call' = Call("unselectStudy", Null, FALSE, FALSE, "fulfilled", {})
  /\ last' = [op |-> "call"]
  /\ UNCHANGED <<pending, nextId, reloading>>

----------------------------------------------------------------------------
(* selectStudy(studyObj, forceReload) *)

SelectedState_none(s, studyObj) == s

SelectedState(s, studyObj) ==
  [s EXCEPT !.selectedStudy = studyObj,
            !.selectedStudyVersion =
               studyObj.current_metadata.version_metadata.version_number]

\* the three calls selectStudy issues, none of them returned to the caller
PreferenceRequests_two(studyObj, id) ==
  {Request(id + 1, "study.getStudyPreferredTimeUnit", studyObj.uid, Null, FALSE, "detached"),
   Request(id + 2, "study.getSoAPreferredTimeUnit", studyObj.uid, Null, FALSE, "detached")}

PreferenceRequests(studyObj, id) ==
  {Request(id + 1, "study.getStudyPreferredTimeUnit", studyObj.uid, Null, FALSE, "detached"),
   Request(id + 2, "study.getSoAPreferredTimeUnit", studyObj.uid, Null, FALSE, "detached"),
   Request(id + 3, "study.getSoAPreferences", studyObj.uid, Null, FALSE, "detached")}

SelectStudy(studyObj, forceReload) ==
  /\ ~reloading
  /\ calls < MaxCalls
  /\ IF ~HasVersion(studyObj)
     THEN \* TypeError at the read of current_metadata.version_metadata
          /\ state' = [state EXCEPT !.selectedStudy = studyObj]
          /\ call' = Call("selectStudy", studyObj, forceReload, TRUE, "rejected", {})
          /\ UNCHANGED <<localStorage, pending, nextId, reloading>>
     ELSE /\ Cardinality(pending) + 3 <= MaxPending
          /\ state' = SelectedState(state, studyObj)
          /\ localStorage' = JSONstringify(studyObj)
          /\ reloading' = forceReload
          /\ pending' = pending \cup PreferenceRequests(studyObj, nextId)
          /\ nextId' = nextId + 3
          /\ call' = Call("selectStudy", studyObj, forceReload, FALSE, "fulfilled",
                          PreferenceRequests(studyObj, nextId))
  /\ calls' = calls + 1
  /\ last' = [op |-> "call"]

----------------------------------------------------------------------------
(* initialize() *)

RevalidationRequest(parsedStudy, id) ==
  Request(id + 1, "study.getStudy", parsedStudy.uid, Null, FALSE, "awaits")

Initialize ==
  /\ ~reloading
  /\ calls < MaxCalls
  /\ IF localStorage = NoItem
     THEN /\ call' = Call("initialize", Null, FALSE, FALSE, "fulfilled", {})
          /\ UNCHANGED <<state, localStorage, pending, nextId>>
     ELSE LET parsedStudy == JSONparse(localStorage) IN
          IF ~HasVersion(parsedStudy)
          THEN \* selectStudy throws, initialize rejects before getStudy
               /\ state' = [state EXCEPT !.selectedStudy = parsedStudy]
               /\ call' = Call("initialize", parsedStudy, FALSE, TRUE, "rejected", {})
               /\ UNCHANGED <<localStorage, pending, nextId>>
          ELSE /\ Cardinality(pending) + 4 <= MaxPending
               /\ state' = SelectedState(state, parsedStudy)
               /\ localStorage' = JSONstringify(parsedStudy)
               /\ pending' = pending
                    \cup PreferenceRequests(parsedStudy, nextId)
                    \cup {RevalidationRequest(parsedStudy, nextId + 3)}
               /\ nextId' = nextId + 4
               /\ call' = Call("initialize", parsedStudy, FALSE, FALSE, "pending",
                               PreferenceRequests(parsedStudy, nextId)
                                 \cup {RevalidationRequest(parsedStudy, nextId + 3)})
  /\ calls' = calls + 1
  /\ last' = [op |-> "call"]
  /\ UNCHANGED reloading

----------------------------------------------------------------------------
(* setStudyPreferredTimeUnit({ timeUnitUid, protocolSoa }) and              *)
(* setSoaPreferences({ show_epochs, show_milestones, baseline_as_time_zero })*)

\* the field the answer to updateStudyPreferredTimeUnit is written to
TimeUnitField_swapped(protocolSoa) ==
  IF protocolSoa THEN "studyPreferredTimeUnit" ELSE "soaPreferredTimeUnit"

TimeUnitField(protocolSoa) ==
  IF protocolSoa THEN "soaPreferredTimeUnit" ELSE "studyPreferredTimeUnit"

SetStudyPreferredTimeUnit(timeUnitUid, protocolSoa) ==
  /\ ~reloading
  /\ calls < MaxCalls
  /\ LET data == [unit_definition_uid |-> timeUnitUid] IN
     IF state.selectedStudy = Null
     THEN \* TypeError at the read of this.selectedStudy.uid
          /\ call' = Call("setStudyPreferredTimeUnit", data, protocolSoa, TRUE,
                          "rejected", {})
          /\ UNCHANGED <<state, pending, nextId>>
     ELSE LET r == Request(nextId + 1, "study.updateStudyPreferredTimeUnit",
                           state.selectedStudy.uid, data, protocolSoa, "awaits")
          IN /\ Cardinality(pending) + 1 <= MaxPending
             /\ UNCHANGED state
             /\ pending' = pending \cup {r}
             /\ nextId' = nextId + 1
             /\ call' = Call("setStudyPreferredTimeUnit", data, protocolSoa, FALSE,
                             "pending", {r})
  /\ calls' = calls + 1
  /\ last' = [op |-> "call"]
  /\ UNCHANGED <<localStorage, reloading>>

SetSoaPreferences(flags) ==
  /\ ~reloading
  /\ calls < MaxCalls
  /\ IF state.selectedStudy = Null
     THEN \* TypeError at the read of this.selectedStudy.uid
          /\ call' = Call("setSoaPreferences", flags, FALSE, TRUE, "rejected", {})
          /\ UNCHANGED <<state, pending, nextId>>
     ELSE LET r == Request(nextId + 1, "study.updateSoaPreferences",
                           state.selectedStudy.uid, flags, FALSE, "awaits")
          IN /\ Cardinality(pending) + 1 <= MaxPending
             /\ UNCHANGED state
             /\ pending' = pending \cup {r}
             /\ nextId' = nextId + 1
             /\ call' = Call("setSoaPreferences", flags, FALSE, FALSE, "pending", {r})
  /\ calls' = calls + 1
  /\ last' = [op |-> "call"]
  /\ UNCHANGED <<localStorage, reloading>>

----------------------------------------------------------------------------
(* The continuations of the study calls *)

\* the field a successful answer to r is written to ("" when to none)
StudyTarget(r) ==
  CASE r.api = "study.getStudyPreferredTimeUnit" -> "studyPreferredTimeUnit"
    [] r.api = "study.getSoAPreferredTimeUnit" -> "soaPreferredTimeUnit"
    [] r.api = "study.getSoAPreferences" -> "soaPreferences"
    [] r.api = "study.updateStudyPreferredTimeUnit" -> TimeUnitField(r.protocolSoa)
    [] r.api = "study.updateSoaPreferences" -> "soaPreferences"
    [] OTHER -> ""

\* .then((resp) => { this.<field> = resp.data })
StudyFulfilled(r, data) ==
  /\ r \in pending
  /\ r.api \in StudyApis
  /\ data \in StudyResponses(r)
  /\ state' = IF StudyTarget(r) = "" THEN state
              ELSE [state EXCEPT ![StudyTarget(r)] = data]
  /\ pending' = pending \ {r}
  /\ call' = Answered(call, r, data)
  /\ last' = [op |-> "fulfilled"]
  /\ UNCHANGED <<localStorage, nextId, reloading, calls>>

\* a failed call: initialize's catch unselects; no other continuation handles it
StudyRejected(r) ==
  /\ r \in pending
  /\ r.api \in StudyApis
  /\ IF r.api = "study.getStudy"
     THEN /\ state' = UnselectedState(state)
          /\ localStorage' = RemovedItem(localStorage)
     ELSE UNCHANGED <<state, localStorage>>
  /\ pending' = pending \ {r}
  /\ call' = Failed(call, r)
  /\ last' = [op |-> "rejected"]
  /\ UNCHANGED <<nextId, reloading, calls>>

\* the page reload selectStudy asked for takes place: the store is
\* constructed anew, the calls in flight are dropped, localStorage stays
Reload ==
  /\ reloading
  /\ state' = InitialState
  /\ pending' = {}
  /\ reloading' = FALSE
  /\ last' = [op |-> "reload"]
  /\ UNCHANGED <<localStorage, nextId, calls, call>>

----------------------------------------------------------------------------
(* The selection life cycle *)

Init ==
  /\ state = InitialState
  /\ localStorage \in {NoItem} \cup {JSONstringify(s) : s \in SelectableStudies}
  /\ pending = {}
  /\ nextId = 0
  /\ reloading = FALSE
  /\ calls = 0
  /\ call = [op |-> "none", arg |-> Null, flag |-> FALSE, threw |-> FALSE,
             awaited |-> "none", alone |-> TRUE, issued |-> {}, fulfilled |-> {}]
  /\ last = [op |-> "none"]

Next ==
  \/ Initialize
  \/ UnselectStudy
  \/ \E studyObj \in StudyObjs, forceReload \in BOOLEAN :
       SelectStudy(studyObj, forceReload)
  \/ \E timeUnitUid \in TimeUnits, protocolSoa \in BOOLEAN :
       SetStudyPreferredTimeUnit(timeUnitUid, protocolSoa)
  \/ \E flags \in SoaFlagChoices : SetSoaPreferences(flags)
  \/ \E r \in pending : \E data \in StudyResponses(r) : StudyFulfilled(r, data)
  \/ \E r \in pending : StudyRejected(r)
  \/ Reload

Spec == Init /\ [][Next]_vars

----------------------------------------------------------------------------
(* Steps, as the properties below name them *)

\* this step is the invocation of store action op
Invoked(op) == calls' = calls + 1 /\ call'.op = op

\* this step is the continuation of a successful answer to r
FulfilledStep(r) == r \in pending /\ r \notin pending' /\ last'.op = "fulfilled"

\* this step is the continuation of a failure of r
RejectedStep(r) == r \in pending /\ r \notin pending' /\ last'.op = "rejected"

\* the answers the last invocation's calls have had, by api
FulfilledData(api) == {p[2] : p \in {q \in call.fulfilled : q[1].api = api}}

----------------------------------------------------------------------------
(* Properties of the selection life cycle *)

\* C1: when the revalidation call study.getStudy that initialize() awaits
\* fails, the step that settles initialize() leaves selectedStudy null in
\* memory and the 'selectedStudy' key absent from storage.
C1_RevalidationFailureClears ==
  [][\A r \in pending :
       (r.api = "study.getStudy" /\ RejectedStep(r))
         => (state'.selectedStudy = Null /\ localStorage' = NoItem)]_vars

\* initialize() restored a persisted study, its revalidation has just failed
C1_Witness ==
  /\ call.op = "initialize" /\ call.arg \in Studies /\ ~call.threw
  /\ last.op = "rejected"
  /\ call.awaited = "fulfilled"
  /\ FulfilledData("study.getStudy") = {}
  /\ state.selectedStudy = Null
  /\ localStorage = NoItem

\* C2: initialize() with study S persisted makes S the selection in memory
\* in the very step that issues study.getStudy(S.uid), so before that call
\* resolves; the continuation of a successful study.getStudy changes neither
\* the store nor storage; so when initialize() ran with nothing else in
\* flight and its revalidation succeeded, selectedStudy and the persisted
\* value are S (until another action is invoked).
C2_OptimisticReselection ==
  /\ [][(Invoked("initialize") /\ localStorage # NoItem /\ ~call'.threw)
          => /\ state'.selectedStudy = JSONparse(localStorage)
             /\ \E r \in pending' \ pending :
                  r.api = "study.getStudy" /\ r.arg = JSONparse(localStorage).uid]_vars
  /\ [][\A r \in pending :
          (r.api = "study.getStudy" /\ FulfilledStep(r))
            => (state' = state /\ localStorage' = localStorage)]_vars
  /\ []((/\ call.op = "initialize" /\ call.arg # Null /\ ~call.threw
         /\ call.alone
         /\ FulfilledData("study.getStudy") # {})
          => (state.selectedStudy = call.arg /\ JSONparse(localStorage) = call.arg))

\* initialize() restored S, the revalidation succeeded, S is still selected
C2_Witness ==
  /\ call.op = "initialize" /\ call.arg \in Studies /\ call.alone
  /\ FulfilledData("study.getStudy") # {}
  /\ call.awaited = "fulfilled"
  /\ state.selectedStudy = call.arg
  /\ JSONparse(localStorage) = call.arg

\* C3: for every study object S (one that has current_metadata, so that
\* selectStudy returns), right after selectStudy(S) the text stored under
\* 'selectedStudy' parses to an object equal to S and selectedStudy in memory
\* is S, whatever was selected before.
C3_SelectPersistsRoundTrip ==
  [][(Invoked("selectStudy") /\ ~call'.threw)
       => (JSONparse(localStorage') = call'.arg /\ state'.selectedStudy = call'.arg)]_vars

\* selectStudy replaced another selection by a study with null and absent
\* leaf properties
C3_Witness ==
  /\ call.op = "selectStudy" /\ ~call.threw /\ last.op = "call"
  /\ call.arg = StudyC
  /\ calls = 2 /\ nextId > 3
  /\ state.selectedStudy = StudyC
  /\ JSONparse(localStorage) = StudyC
  /\ localStorage # Leaves(StudyC)

\* C4: unselectStudy() sets selectedStudy to null and removes the storage
\* key in its one step, issuing no HTTP call; initialize() with nothing
\* persisted issues no HTTP call and changes no field of the store, so after
\* an unselect it leaves selectedStudy null.
C4_UnselectIsLocal ==
  /\ [][Invoked("unselectStudy")
          => /\ state'.selectedStudy = Null
             /\ localStorage' = NoItem
             /\ pending' = pending /\ nextId' = nextId]_vars
  /\ [][(Invoked("initialize") /\ localStorage = NoItem)
          => /\ state' = state
             /\ localStorage' = NoItem
             /\ pending' = pending /\ nextId' = nextId]_vars

\* unselectStudy() has just cleared a selection whose calls are in flight
C4_Witness ==
  /\ call.op = "unselectStudy" /\ last.op = "call"
  /\ pending # {}
  /\ state.selectedStudyVersion # JNull
  /\ state.selectedStudy = Null
  /\ localStorage = NoItem

\* C7: setStudyPreferredTimeUnit and setSoaPreferences change no field of
\* the store when they are invoked; the continuation of a successful answer
\* writes the answer's data to the target field alone (soaPreferredTimeUnit
\* when protocolSoa is set, else studyPreferredTimeUnit; soaPreferences for
\* setSoaPreferences); a failed request changes no field.
C7_NoOptimisticUpdate ==
  /\ [][(Invoked("setStudyPreferredTimeUnit") \/ Invoked("setSoaPreferences"))
          => state' = state]_vars
  /\ [][\A r \in pending :
          /\ (r.api = "study.updateStudyPreferredTimeUnit" /\ FulfilledStep(r))
               => \E data \in StudyResponses(r) :
                    state' = [state EXCEPT
                                ![IF r.protocolSoa THEN "soaPreferredTimeUnit"
                                  ELSE "studyPreferredTimeUnit"] = data]
          /\ (r.api = "study.updateSoaPreferences" /\ FulfilledStep(r))
               => \E data \in StudyResponses(r) :
                    state' = [state EXCEPT !.soaPreferences = data]
          /\ (r.api \in {"study.updateStudyPreferredTimeUnit",
                         "study.updateSoaPreferences"} /\ RejectedStep(r))
               => state' = state]_vars

\* the server has confirmed a protocol-SoA time unit, which is now in
\* soaPreferredTimeUnit while studyPreferredTimeUnit was never written
C7_Witness ==
  /\ call.op = "setStudyPreferredTimeUnit" /\ call.flag /\ last.op = "fulfilled"
  /\ call.awaited = "fulfilled"
  /\ state.selectedStudy # Null
  /\ state.soaPreferredTimeUnit
       = TimeUnitData(state.selectedStudy.uid, call.arg.unit_definition_uid)
  /\ state.soaPreferredTimeUnit \in FulfilledData("study.updateStudyPreferredTimeUnit")
  /\ state.studyPreferredTimeUnit = Null

\* C8: selectStudy(S) issues exactly three calls (preferred time unit, SoA
\* preferred time unit, SoA preferences), each for S.uid, and returns with
\* the three preference fields as they were; the continuation of each
\* answer writes its own field alone and a failure writes nothing, neither
\* taking another call out of flight; every call in flight can be answered
\* whatever else has happened; and when selectStudy(S) ran without
\* forceReload, with nothing else in flight and no store action invoked
\* since, once all three have succeeded the three fields hold the three
\* answers' data for S.
C8_IndependentPreferenceFetches ==
  /\ [][(Invoked("selectStudy") /\ ~call'.threw)
          => /\ {<<r.api, r.arg>> : r \in pending' \ pending}
                  = {<<"study.getStudyPreferredTimeUnit", call'.arg.uid>>,
                     <<"study.getSoAPreferredTimeUnit", call'.arg.uid>>,
                     <<"study.getSoAPreferences", call'.arg.uid>>}
             /\ Cardinality(pending' \ pending) = 3
             /\ pending \subseteq pending'
             /\ \A f \in PreferenceFields : state'[f] = state[f]
             /\ call'.awaited = "fulfilled"]_vars
  /\ [][\A r \in pending :
          /\ (r.api = "study.getStudyPreferredTimeUnit" /\ FulfilledStep(r))
               => \E data \in StudyResponses(r) :
                    state' = [state EXCEPT !.studyPreferredTimeUnit = data]
          /\ (r.api = "study.getSoAPreferredTimeUnit" /\ FulfilledStep(r))
               => \E data \in StudyResponses(r) :
                    state' = [state EXCEPT !.soaPreferredTimeUnit = data]
          /\ (r.api = "study.getSoAPreferences" /\ FulfilledStep(r))
               => \E data \in StudyResponses(r) :
                    state' = [state EXCEPT !.soaPreferences = data]
          /\ (r.api \in {"study.getStudyPreferredTimeUnit",
                         "study.getSoAPreferredTimeUnit",
                         "study.getSoAPreferences"} /\ RejectedStep(r))
               => state' = state
          /\ (FulfilledStep(r) \/ RejectedStep(r)) => pending' = pending \ {r}]_vars
  /\ [](\A r \in pending :
          ENABLED (\E data \in StudyResponses(r) : StudyFulfilled(r, data)))
  /\ []((/\ call.op = "selectStudy" /\ ~call.threw /\ ~call.flag
         /\ call.alone
         /\ Cardinality(call.fulfilled) = 3)
          => /\ FulfilledData("study.getStudyPreferredTimeUnit")
                  = {state.studyPreferredTimeUnit}
             /\ FulfilledData("study.getSoAPreferredTimeUnit")
                  = {state.soaPreferredTimeUnit}
             /\ FulfilledData("study.getSoAPreferences") = {state.soaPreferences}
             /\ \A f \in PreferenceFields : state[f].study_uid = call.arg.uid)

\* one of selectStudy's three calls failed, the other two were still answered
\* and wrote their fields
C8_Witness ==
  /\ call.op = "selectStudy" /\ ~call.threw /\ ~call.flag /\ call.alone
  /\ pending = {}
  /\ Cardinality(call.fulfilled) = 2
  /\ FulfilledData("study.getSoAPreferredTimeUnit") = {}
  /\ state.soaPreferredTimeUnit = Null
  /\ state.studyPreferredTimeUnit = TimeUnitData(call.arg.uid, "UnitDefinition_day")
  /\ state.soaPreferences # Null /\ state.soaPreferences.study_uid = call.arg.uid

\* C17: selectStudy(S, forceReload) with forceReload set asks for the page
\* reload only after it has stored S under 'selectedStudy', so that when the
\* page has reloaded the key holds S, which is what the initialize() that
\* runs next parses and makes the selection.
C17_ReloadRestoresSelection ==
  (last.op = "reload" /\ call.op = "selectStudy" /\ call.flag /\ ~call.threw)
    => (localStorage # NoItem /\ JSONparse(localStorage) = call.arg)

\* memory and storage name the same selection
SelectionAgrees ==
  IF state.selectedStudy = Null
  THEN localStorage = NoItem
  ELSE localStorage # NoItem /\ JSONparse(localStorage) = state.selectedStudy

\* C18: from a state in which memory and storage agree on the selection
\* (selectedStudy null and the key absent, or the stored text parsing to
\* selectedStudy), every store action and every answer leads to a state in
\* which they agree, also when the action throws part-way.
C18_MemoryMatchesStorage ==
  [][(SelectionAgrees /\ last'.op # "reload") => SelectionAgrees']_vars

\* C19: when the revalidation call of initialize() for the study it
\* restored fails while another study, selected since, is the selection in
\* memory and in storage, that study stays selected in both.
C19_RollbackOnlyRestored ==
  [][\A r \in pending :
       (/\ r.api = "study.getStudy" /\ RejectedStep(r)
        /\ state.selectedStudy \in Studies
        /\ state.selectedStudy.uid # r.arg
        /\ localStorage = JSONstringify(state.selectedStudy))
         => (state'.selectedStudy = state.selectedStudy /\ localStorage' = localStorage)]_vars

----------------------------------------------------------------------------
(* The reference collections: the fetch* actions *)

Term(uid, order) == [term_uid |-> uid, order |-> order]

AllTerms == {Term("T_a", 1), Term("T_b", 1), Term("T_c", 2), Term("T_d", 3)}

\* what a successful answer to a collection call may carry as resp.data.items
SampleLists ==
  {<<Term("T_d", 3), Term("T_a", 1), Term("T_c", 2)>>, <<Term("T_b", 1)>>}

\* ... and to dictionaries.getCodelists('SNOMED')
DictionaryLists ==
  {<< >>,
   <<[codelist_uid |-> "DictionaryCodelist_1"]>>,
   <<[codelist_uid |-> "DictionaryCodelist_2"], [codelist_uid |-> "DictionaryCodelist_1"]>>}

FetchActions ==
  {"fetchUnits", "fetchAllUnits", "fetchStudyTypes", "fetchTrialIntentTypes",
   "fetchTrialTypes", "fetchTrialPhases", "fetchInterventionTypes",
   "fetchSexOfParticipants", "fetchTrialBlindingSchemas", "fetchControlTypes",
   "fetchInterventionModels", "fetchNullValues", "fetchObjectiveLevels",
   "fetchEndpointLevels", "fetchEndpointSubLevels"}

\* the call each action makes and the field its continuation assigns
FetchCall(action) ==
  CASE action = "fetchUnits" ->
         [api |-> "units.getBySubset", arg |-> "Study Time", body |-> Null,
          field |-> "units"]
    [] action = "fetchAllUnits" ->
         [api |-> "units.get", arg |-> "", body |-> [params |-> [page_size |-> 0]],
          field |-> "allUnits"]
    [] action = "fetchStudyTypes" ->
         [api |-> "terms.getNamesByCodelist", arg |-> "studyType", body |-> Null,
          field |-> "studyTypes"]
    [] action = "fetchTrialIntentTypes" ->
         [api |-> "terms.getNamesByCodelist", arg |-> "trialIntentType", body |-> Null,
          field |-> "trialIntentTypes"]
    [] action = "fetchTrialTypes" ->
         [api |-> "terms.getNamesByCodelist", arg |-> "trialType", body |-> Null,
          field |-> "trialTypes"]
    [] action = "fetchTrialPhases" ->
         [api |-> "terms.getNamesByCodelist", arg |-> "trialPhase", body |-> Null,
          field |-> "trialPhases"]
    [] action = "fetchInterventionTypes" ->
         [api |-> "terms.getNamesByCodelist", arg |-> "interventionTypes", body |-> Null,
          field |-> "interventionTypes"]
    [] action = "fetchSexOfParticipants" ->
         [api |-> "terms.getNamesByCodelist", arg |-> "sexOfParticipants", body |-> Null,
          field |-> "sexOfParticipants"]
    [] action = "fetchTrialBlindingSchemas" ->
         [api |-> "terms.getNamesByCodelist", arg |-> "trialBlindingSchema", body |-> Null,
          field |-> "trialBlindingSchemas"]
    [] action = "fetchControlTypes" ->
         [api |-> "terms.getNamesByCodelist", arg |-> "controlType", body |-> Null,
          field |-> "controlTypes"]
    [] action = "fetchInterventionModels" ->
         [api |-> "terms.getNamesByCodelist", arg |-> "interventionModel", body |-> Null,
          field |-> "interventionModels"]
    [] action = "fetchNullValues" ->
         [api |-> "terms.getByCodelist", arg |-> "nullValues", body |-> Null,
          field |-> "nullValues"]
    [] action = "fetchObjectiveLevels" ->
         [api |-> "terms.getNamesByCodelist", arg |-> "objectiveLevels", body |-> Null,
          field |-> "objectiveLevels"]
    [] action = "fetchEndpointLevels" ->
         [api |-> "terms.getNamesByCodelist", arg |-> "endpointLevels", body |-> Null,
          field |-> "endpointLevels"]
    [] action = "fetchEndpointSubLevels" ->
         [api |-> "terms.getNamesByCodelist", arg |-> "endpointSubLevels", body |-> Null,
          field |-> "endpointSubLevels"]

FetchApis ==
  {FetchCall(a).api : a \in FetchActions}
    \cup {"dictionaries.getCodelists", "dictionaries.getTerms"}

\* The promise a fetch action hands back to its caller: none.  The action
\* calls .then on the client's promise and returns undefined, so the
\* caller's `await` is over as soon as the action returns.
FetchReturn == "fulfilled"

\* the field the continuation of r assigns ("" when it assigns none)
FetchTarget(r) ==
  CASE r.api = "dictionaries.getTerms" -> "snomedTerms"
    [] r.api = "dictionaries.getCodelists" -> ""
    [] OTHER -> FetchCall(CHOOSE a \in FetchActions :
                            FetchCall(a).api = r.api /\ FetchCall(a).arg = r.arg).field

\* this.<field> = resp.data.items
FetchedState_appended(s, field, data) == [s EXCEPT ![field] = @ \o data.items]

FetchedState(s, field, data) == [s EXCEPT ![field] = data.items]

\* a fetch action; its record keeps the field's value at the invocation
Fetch(action) ==
  LET c == FetchCall(action)
      r == Request(nextId + 1, c.api, c.arg, c.body, FALSE, "detached")
  IN /\ calls < MaxCalls
     /\ Cardinality(pending) + 1 <= MaxPending
     /\ pending' = pending \cup {r}
     /\ nextId' = nextId + 1
     /\ calls' = calls + 1
     /\ call' = Call(action, [before |-> state[c.field]], FALSE, FALSE,
                     FetchReturn, {r})
     /\ last' = [op |-> "call"]
     /\ UNCHANGED <<state, localStorage, reloading>>

\* fetchSnomedTerms(): the first of its two calls
FetchSnomedTerms ==
  LET r == Request(nextId + 1, "dictionaries.getCodelists", "SNOMED", Null, FALSE,
                   "detached")
  IN /\ calls < MaxCalls
     /\ Cardinality(pending) + 1 <= MaxPending
     /\ pending' = pending \cup {r}
     /\ nextId' = nextId + 1
     /\ calls' = calls + 1
     /\ call' = Call("fetchSnomedTerms", [before |-> state.snomedTerms], FALSE, FALSE,
                     FetchReturn, {r})
     /\ last' = [op |-> "call"]
     /\ UNCHANGED <<state, localStorage, reloading>>

\* the parameters of the second call, from the answer to the first
SnomedParams_last(data) ==
  [codelist_uid |-> data.items[Len(data.items)].codelist_uid,
   page_size |-> 0, sort_by |-> "{\"name\":true}"]

SnomedParams(data) ==
  [codelist_uid |-> data.items[1].codelist_uid,
   page_size |-> 0, sort_by |-> "{\"name\":true}"]

\* the continuation of dictionaries.getCodelists: the second call, for the
\* first codelist of the answer (a TypeError when the answer has none)
SnomedCodelistsFulfilled(r, data) ==
  /\ r \in pending
  /\ r.api = "dictionaries.getCodelists"
  /\ data \in {[items |-> l] : l \in DictionaryLists}
  /\ IF data.items = << >>
     THEN /\ pending' = pending \ {r}
          /\ call' = Answered(call, r, data)
          /\ UNCHANGED nextId
     ELSE LET params == SnomedParams(data)
              r2 == Request(nextId + 1, "dictionaries.getTerms",
                            params.codelist_uid, params, FALSE, "detached")
          IN /\ pending' = (pending \ {r}) \cup {r2}
             /\ nextId' = nextId + 1
             /\ call' = IF r \in call.issued
                        THEN [Answered(call, r, data) EXCEPT !.issued = @ \cup {r2}]
                        ELSE call
  /\ last' = [op |-> "fulfilled"]
  /\ UNCHANGED <<state, localStorage, reloading, calls>>

\* .then((resp) => { this.<field> = resp.data.items })
FetchFulfilled(r, data) ==
  /\ r \in pending
  /\ r.api \in FetchApis \ {"dictionaries.getCodelists"}
  /\ data \in {[items |-> l] : l \in SampleLists}
  /\ state' = FetchedState(state, FetchTarget(r), data)
  /\ pending' = pending \ {r}
  /\ call' = Answered(call, r, data)
  /\ last' = [op |-> "fulfilled"]
  /\ UNCHANGED <<localStorage, nextId, reloading, calls>>

\* a failed call: no continuation of a fetch action handles it
FetchRejected(r) ==
  /\ r \in pending
  /\ r.api \in FetchApis
  /\ pending' = pending \ {r}
  /\ call' = Failed(call, r)
  /\ last' = [op |-> "rejected"]
  /\ UNCHANGED <<state, localStorage, nextId, reloading, calls>>

InitFetch ==
  /\ state = InitialState
  /\ localStorage = NoItem
  /\ pending = {}
  /\ nextId = 0
  /\ reloading = FALSE
  /\ calls = 0
  /\ call = [op |-> "none", arg |-> Null, flag |-> FALSE, threw |-> FALSE,
             awaited |-> "none", alone |-> TRUE, issued |-> {}, fulfilled |-> {}]
  /\ last = [op |-> "none"]

NextFetch ==
  \/ \E action \in FetchActions : Fetch(action)
  \/ FetchSnomedTerms
  \/ \E r \in pending : \E l \in DictionaryLists :
       SnomedCodelistsFulfilled(r, [items |-> l])
  \/ \E r \in pending : \E l \in SampleLists : FetchFulfilled(r, [items |-> l])
  \/ \E r \in pending : FetchRejected(r)

SpecFetch == InitFetch /\ [][NextFetch]_vars

----------------------------------------------------------------------------
(* The derived accessors sortedObjectiveLevels and sortedEndpointLevels *)

\* the comparator (a, b) => a.order - b.order
CompareOrder_reversed(a, b) == b.order - a.order

CompareOrder(a, b) == a.order - b.order

\* Array.prototype.sort with that comparator: a stable sort, here by
\* insertion from the left, each element going after those not greater
RECURSIVE InsertByOrder(_, _)
InsertByOrder(sorted, x) ==
  IF sorted = << >> THEN <<x>>
  ELSE LET n == Len(sorted) IN
       IF CompareOrder(sorted[n], x) > 0
       THEN Append(InsertByOrder(SubSeq(sorted, 1, n - 1), x), sorted[n])
       ELSE Append(sorted, x)

RECURSIVE SortByOrder(_)
SortByOrder(list) ==
  IF list = << >> THEN << >>
  ELSE InsertByOrder(SortByOrder(SubSeq(list, 1, Len(list) - 1)), list[Len(list)])

\* What a read of the getter leaves in the store's collection: sort works on
\* the array it is called on, and the getter calls it on the store's own.
CollectionAfterRead(list) == SortByOrder(list)

\* reading a getter: the array returned is the store's array, sorted
ReadSorted(getter, field) ==
  /\ state' = [state EXCEPT ![field] = CollectionAfterRead(@)]
  /\ last' = [op |-> "read", getter |-> getter, field |-> field,
              before |-> state, returned |-> SortByOrder(state[field])]
  /\ UNCHANGED <<localStorage, pending, nextId, reloading, calls, call>>

ReadSortedObjectiveLevels == ReadSorted("sortedObjectiveLevels", "objectiveLevels")

ReadSortedEndpointLevels == ReadSorted("sortedEndpointLevels", "endpointLevels")

\* the getter studyId: study_id when the selected study has a study number,
\* study_acronym otherwise
StudyId_onlyNull(s) ==
  LET studyNumber ==
        s.selectedStudy.current_metadata.identification_metadata.study_number
  IN IF studyNumber # JNull
     THEN s.selectedStudy.current_metadata.identification_metadata.study_id
     ELSE s.selectedStudy.current_metadata.identification_metadata.study_acronym

StudyId(s) ==
  LET studyNumber ==
        s.selectedStudy.current_metadata.identification_metadata.study_number
  IN IF studyNumber # Undefined /\ studyNumber # JNull
     THEN s.selectedStudy.current_metadata.identification_metadata.study_id
     ELSE s.selectedStudy.current_metadata.identification_metadata.study_acronym

\* reading studyId (a TypeError when no study is selected)
ReadStudyId ==
  /\ last' = [op |-> "studyId", before |-> state,
              returned |-> IF state.selectedStudy = Null THEN "TypeError"
                           ELSE StudyId(state)]
  /\ UNCHANGED <<state, localStorage, pending, nextId, reloading, calls, call>>

\* the collections a fetch can have left in the store: the terms of an
\* answer, each once, in any order
TermLists ==
  {l \in UNION {[1..n -> AllTerms] : n \in 0..MaxLen} :
     \A i, j \in 1..Len(l) : l[i] = l[j] => i = j}

InitSort ==
  /\ \E objectiveLevels \in TermLists, endpointLevels \in TermLists :
       \E s \in {InitialState} \cup {SelectedState(InitialState, studyObj) :
                                        studyObj \in Studies} :
         state = [s EXCEPT !.objectiveLevels = objectiveLevels,
                           !.endpointLevels = endpointLevels]
  /\ localStorage = IF state.selectedStudy = Null THEN NoItem
                    ELSE JSONstringify(state.selectedStudy)
  /\ pending = {}
  /\ nextId = 0
  /\ reloading = FALSE
  /\ calls = 0
  /\ call = [op |-> "none", arg |-> Null, flag |-> FALSE, threw |-> FALSE,
             awaited |-> "none", alone |-> TRUE, issued |-> {}, fulfilled |-> {}]
  /\ last = [op |-> "none"]

NextSort ==
  \/ ReadSortedObjectiveLevels
  \/ ReadSortedEndpointLevels
  \/ ReadStudyId

SpecSort == InitSort /\ [][NextSort]_vars

----------------------------------------------------------------------------
(* Properties of the reference collections *)

\* the field each fetch action is documented to fill
FieldOfAction ==
  {<<"fetchUnits", "units">>, <<"fetchAllUnits", "allUnits">>,
   <<"fetchStudyTypes", "studyTypes">>,
   <<"fetchTrialIntentTypes", "trialIntentTypes">>,
   <<"fetchTrialTypes", "trialTypes">>, <<"fetchTrialPhases", "trialPhases">>,
   <<"fetchInterventionTypes", "interventionTypes">>,
   <<"fetchSexOfParticipants", "sexOfParticipants">>,
   <<"fetchTrialBlindingSchemas", "trialBlindingSchemas">>,
   <<"fetchControlTypes", "controlTypes">>,
   <<"fetchInterventionModels", "interventionModels">>,
   <<"fetchNullValues", "nullValues">>,
   <<"fetchObjectiveLevels", "objectiveLevels">>,
   <<"fetchEndpointLevels", "endpointLevels">>,
   <<"fetchEndpointSubLevels", "endpointSubLevels">>}

\* C5: every reference-collection fetch action issues exactly one call and
\* changes no field when invoked; the continuation of its call's success
\* makes the action's field equal to the answer's items and changes no other
\* field, that of its failure changes no field; so when the action ran with
\* nothing else in flight and nothing was invoked since, after a success the
\* field is exactly the answer's items and after a failure it is what it was
\* before the fetch.
C5_FetchReplacesOrKeeps ==
  /\ [][\A af \in FieldOfAction :
          Invoked(af[1])
            => /\ Cardinality(pending' \ pending) = 1
               /\ pending \subseteq pending'
               /\ call'.issued = pending' \ pending
               /\ state' = state]_vars
  /\ [][\A r \in pending : \A af \in FieldOfAction :
          (call.op = af[1] /\ r \in call.issued)
            => /\ FulfilledStep(r)
                    => \E l \in SampleLists :
                         /\ <<r, [items |-> l]>> \in call'.fulfilled
                         /\ state' = [state EXCEPT ![af[2]] = l]
               /\ RejectedStep(r) => state' = state]_vars
  /\ [](\A af \in FieldOfAction :
          (call.op = af[1] /\ call.alone /\ call.issued \cap pending = {})
            => /\ call.fulfilled = {} => state[af[2]] = call.arg.before
               /\ \A p \in call.fulfilled : state[af[2]] = p[2].items)

\* a fetch of a collection that already held terms has just failed, and the
\* collection still holds them
C5_Witness ==
  /\ call.op = "fetchTrialTypes" /\ call.alone /\ last.op = "rejected"
  /\ call.issued \cap pending = {} /\ call.fulfilled = {}
  /\ call.arg.before # << >>
  /\ state.trialTypes = call.arg.before

\* C16: fetchSnomedTerms() itself issues one call, dictionaries.getCodelists
\* ('SNOMED'), and writes nothing; a dictionaries.getTerms call is issued
\* only in the step in which a getCodelists answer arrives, one per answer
\* and at most one per fetchSnomedTerms call, for the codelist_uid of the
\* answer's first item; snomedTerms changes only in the step in which a
\* getTerms answer arrives, to that answer's items; a failure of either call
\* changes no field and issues no call, so that snomedTerms is then what it
\* was before the fetch.
C16_SnomedSequential ==
  /\ [][Invoked("fetchSnomedTerms")
          => /\ \E r \in pending' \ pending :
                  /\ pending' = pending \cup {r}
                  /\ r.api = "dictionaries.getCodelists" /\ r.arg = "SNOMED"
             /\ state' = state]_vars
  /\ [][\A r2 \in pending' \ pending :
          r2.api = "dictionaries.getTerms"
            => /\ pending' \ pending = {r2}
               /\ \E r \in pending \ pending' :
                    /\ r.api = "dictionaries.getCodelists"
                    /\ FulfilledStep(r)
                    /\ pending \ pending' = {r}
                    /\ r \in call.issued
                         => \E p \in call'.fulfilled :
                              /\ p[1] = r
                              /\ p[2].items # << >>
                              /\ r2.body.codelist_uid = p[2].items[1].codelist_uid
                              /\ r2.arg = p[2].items[1].codelist_uid]_vars
  /\ [](call.op = "fetchSnomedTerms"
          => /\ Cardinality({r \in call.issued : r.api = "dictionaries.getTerms"}) <= 1
             /\ Cardinality({r \in call.issued : r.api = "dictionaries.getCodelists"}) = 1)
  /\ [][state'.snomedTerms # state.snomedTerms
          => \E r \in pending \ pending' :
               /\ r.api = "dictionaries.getTerms"
               /\ FulfilledStep(r)
               /\ r \in call.issued
                    => \E p \in call'.fulfilled :
                         p[1] = r /\ state' = [state EXCEPT !.snomedTerms = p[2].items]]_vars
  /\ [][\A r \in pending :
          (r.api \in {"dictionaries.getCodelists", "dictionaries.getTerms"}
             /\ RejectedStep(r))
            => (state' = state /\ pending' = pending \ {r})]_vars
  /\ []((/\ call.op = "fetchSnomedTerms" /\ call.alone
         /\ call.issued \cap pending = {})
          => LET answers == {p \in call.fulfilled : p[1].api = "dictionaries.getTerms"}
             IN /\ answers = {} => state.snomedTerms = call.arg.before
                /\ \A p \in answers : state.snomedTerms = p[2].items)

\* fetchSnomedTerms() got two codelists, asked for the terms of the first
\* and stored the answer
C16_Witness ==
  /\ call.op = "fetchSnomedTerms" /\ call.alone /\ last.op = "fulfilled"
  /\ pending = {}
  /\ \E p \in call.fulfilled :
       /\ p[1].api = "dictionaries.getCodelists"
       /\ Len(p[2].items) = 2
       /\ \E q \in call.fulfilled :
            /\ q[1].api = "dictionaries.getTerms"
            /\ q[1].id > p[1].id
            /\ q[1].body.codelist_uid = "DictionaryCodelist_2"
            /\ state.snomedTerms = q[2].items
            /\ Len(q[2].items) = 3

\* C6: when the call of a fetch* action fails, the caller that awaited the
\* action sees the failure: its await is not over while the call is in
\* flight, and is rejected when the call has failed.
C6_FailureReachesCaller ==
  (call.op \in FetchActions)
    => /\ (call.issued \cap pending # {}) => call.awaited = "pending"
       /\ (call.issued \cap pending = {} /\ call.fulfilled = {})
            => call.awaited = "rejected"

\* C9: a read of sortedObjectiveLevels or sortedEndpointLevels leaves every
\* field of the store, objectiveLevels and endpointLevels included, with the
\* same elements in the same positions as before the read.
C9_ReadMutatesNothing == last.op = "read" => state = last.before

\* the position of term x in list l
Position(l, x) == CHOOSE i \in 1..Len(l) : l[i] = x

\* C10: for every content of objectiveLevels (endpointLevels), the getter
\* returns a permutation of the collection as it was, in non-decreasing
\* order of the order field, terms of equal order in their original
\* relative order.
C10_SortedStablePermutation ==
  last.op = "read"
    => LET before == last.before[last.field]
           returned == last.returned
       IN /\ Len(returned) = Len(before)
          /\ \A x \in AllTerms :
               Cardinality({i \in 1..Len(before) : before[i] = x})
                 = Cardinality({i \in 1..Len(returned) : returned[i] = x})
          /\ \A i, j \in 1..Len(returned) :
               i < j => returned[i].order <= returned[j].order
          /\ \A i, j \in 1..Len(before) :
               (i < j /\ before[i].order = before[j].order)
                 => Position(returned, before[i]) < Position(returned, before[j])

\* sortedEndpointLevels read on [{order:3},{order:1 (T_b)},{order:1 (T_a)}]
C10_Witness ==
  /\ last.op = "read" /\ last.getter = "sortedEndpointLevels"
  /\ last.before.endpointLevels = <<Term("T_d", 3), Term("T_b", 1), Term("T_a", 1)>>
  /\ last.returned = <<Term("T_b", 1), Term("T_a", 1), Term("T_d", 3)>>

\* C11: with a study selected, studyId returns the study's study_id when
\* its study_number is neither null nor undefined and its study_acronym in
\* every other case, and the read changes no field of the store.
C11_StudyIdOrAcronym ==
  (last.op = "studyId" /\ last.before.selectedStudy # Null)
    => LET identification ==
             last.before.selectedStudy.current_metadata.identification_metadata
       IN /\ identification.study_number \notin {JNull, Undefined}
               => last.returned = identification.study_id
          /\ identification.study_number \in {JNull, Undefined}
               => last.returned = identification.study_acronym
          /\ state = last.before

\* studyId read on a study whose study_number key is absent
C11_Witness ==
  /\ last.op = "studyId"
  /\ last.before.selectedStudy = StudyC
  /\ last.returned = "ACR-C"
  /\ state.selectedStudy = StudyC

----------------------------------------------------------------------------
(* The controlled terminology resource client (api/controlledTerminology.js): *)
(* each operation makes one call on the HTTP client `repository` and hands    *)
(* the promise it gets back to its caller.  A url is the sequence of its      *)
(* path segments.                                                             *)

resource == "ct"

\* repository.get(url, { params }) / repository.post(url, data), in flight
HttpRequest(id, method, url, params, data) ==
  [id |-> id, api |-> "repository." \o method, method |-> method, url |-> url,
   params |-> params, data |-> data, caller |-> "awaits"]

\* filter parameters a caller may pass (sample values)
OptionSets ==
  {[page_size |-> -1],
   [page_size |-> 1000],
   [page_size |-> 10, catalogue_name |-> "SDTM CT"],
   [catalogue |-> "SDTM CT", sponsor_only |-> TRUE],
   [library |-> "Sponsor"]}

CodelistUids == {"C66737", "CTCodelist_000001"}
TermUids == {"C49488_Y", "CTTerm_000002"}
Catalogues == {"SDTM CT", "ADAM CT"}
PackageDates == {"2020-03-27", "2020-06-26"}

\* getCodelists: const params = {...options}; page_size -1 becomes 1000
CodelistParams_passthrough(options) == options

CodelistParams(options) ==
  IF "page_size" \in DOMAIN options /\ options.page_size = -1
  THEN [options EXCEPT !.page_size = 1000]
  ELSE options

\* getCodelistTermsAttributes: const params = {...options, codelist_uid: codelistUid}
TermsAttributesParams(codelistUid, options) ==
  [k \in DOMAIN options \cup {"codelist_uid"} |->
     IF k = "codelist_uid" THEN codelistUid ELSE options[k]]

\* getSponsorPackages: const params = { catalogue: 'SDTM CT', sponsor_only: true }
SponsorParams_catalogueOnly == [catalogue |-> "SDTM CT"]

SponsorParams == [catalogue |-> "SDTM CT", sponsor_only |-> TRUE]

\* addTermToCodelist: const data = { term_uid: termUid, order: 999999 }
TermData_first(termUid) == [term_uid |-> termUid, order |-> 1]

TermData(termUid) == [term_uid |-> termUid, order |-> 999999]

\* the call each operation makes: method, url, params, data
ClientRequest(op, arg, id) ==
  CASE op = "getPackages" ->
         HttpRequest(id, "get", <<resource, "packages">>, arg, Null)
    [] op = "getSponsorPackages" ->
         HttpRequest(id, "get", <<resource, "packages">>, SponsorParams, Null)
    [] op = "getPackagesDates" ->
         HttpRequest(id, "get", <<resource, "packages", "dates">>,
                     [catalogue_name |-> arg.catalogueName], Null)
    [] op = "getPackagesChanges" ->
         HttpRequest(id, "get", <<resource, "packages", "changes">>,
                     [catalogue_name |-> arg.catalogueName,
                      old_package_date |-> arg.fromDate,
                      new_package_date |-> arg.toDate], Null)
    [] op = "getPackagesCodelistChanges" ->
         HttpRequest(id, "get", <<resource, "packages", arg.codelistUid, "changes">>,
                     [catalogue_name |-> arg.catalogueName,
                      old_package_date |-> arg.fromDate,
                      new_package_date |-> arg.toDate], Null)
    [] op = "getCodelists" ->
         HttpRequest(id, "get", <<resource, "codelists">>, CodelistParams(arg), Null)
    [] op = "getCodelistTermsAttributes" ->
         HttpRequest(id, "get", <<resource, "terms", "attributes">>,
                     TermsAttributesParams(arg.codelistUid, arg.options), Null)
    [] op = "getCodelistTerms" ->
         HttpRequest(id, "get", <<resource, "terms">>, arg, Null)
    [] op = "getCodelistTermsNames" ->
         HttpRequest(id, "get", <<resource, "terms", "names">>, arg, Null)
    [] op = "addTermToCodelist" ->
         HttpRequest(id, "post", <<resource, "codelists", arg.codelistUid, "terms">>,
                     Null, TermData(arg.termUid))

\* an operation of the client: one call, whose promise the caller gets
ClientCall(op, arg) ==
  LET r == ClientRequest(op, arg, nextId + 1)
  IN /\ calls < MaxCalls
     /\ Cardinality(pending) + 1 <= MaxPending
     /\ pending' = pending \cup {r}
     /\ nextId' = nextId + 1
     /\ calls' = calls + 1
     /\ call' = Call(op, arg, FALSE, FALSE, "pending", {r})
     /\ last' = [op |-> "call"]
     /\ UNCHANGED <<state, localStorage, reloading>>

getPackages(params) == ClientCall("getPackages", params)

getSponsorPackages == ClientCall("getSponsorPackages", Null)

getPackagesDates(catalogueName) ==
  ClientCall("getPackagesDates", [catalogueName |-> catalogueName])

getPackagesChanges(catalogueName, fromDate, toDate) ==
  ClientCall("getPackagesChanges",
             [catalogueName |-> catalogueName, fromDate |-> fromDate, toDate |-> toDate])

getPackagesCodelistChanges(codelistUid, catalogueName, fromDate, toDate) ==
  ClientCall("getPackagesCodelistChanges",
             [codelistUid |-> codelistUid, catalogueName |-> catalogueName,
              fromDate |-> fromDate, toDate |-> toDate])

getCodelists(options) == ClientCall("getCodelists", options)

getCodelistTermsAttributes(codelistUid, options) ==
  ClientCall("getCodelistTermsAttributes",
             [codelistUid |-> codelistUid, options |-> options])

getCodelistTerms(params) == ClientCall("getCodelistTerms", params)

getCodelistTermsNames(params) == ClientCall("getCodelistTermsNames", params)

addTermToCodelist(codelistUid, termUid) ==
  ClientCall("addTermToCodelist", [codelistUid |-> codelistUid, termUid |-> termUid])

\* the server answers; the client adds no continuation of its own
HttpFulfilled(r) ==
  /\ r \in pending
  /\ pending' = pending \ {r}
  /\ call' = Answered(call, r, [status |-> 200])
  /\ last' = [op |-> "fulfilled"]
  /\ UNCHANGED <<state, localStorage, nextId, reloading, calls>>

HttpRejected(r) ==
  /\ r \in pending
  /\ pending' = pending \ {r}
  /\ call' = Failed(call, r)
  /\ last' = [op |-> "rejected"]
  /\ UNCHANGED <<state, localStorage, nextId, reloading, calls>>

InitClient ==
  /\ state = InitialState
  /\ localStorage = NoItem
  /\ pending = {}
  /\ nextId = 0
  /\ reloading = FALSE
  /\ calls = 0
  /\ call = [op |-> "none", arg |-> Null, flag |-> FALSE, threw |-> FALSE,
             awaited |-> "none", alone |-> TRUE, issued |-> {}, fulfilled |-> {}]
  /\ last = [op |-> "none"]

NextClient ==
  \/ \E params \in OptionSets : getPackages(params)
  \/ getSponsorPackages
  \/ \E catalogueName \in Catalogues : getPackagesDates(catalogueName)
  \/ \E catalogueName \in Catalogues, fromDate \in PackageDates, toDate \in PackageDates :
       getPackagesChanges(catalogueName, fromDate, toDate)
  \/ \E codelistUid \in CodelistUids, catalogueName \in Catalogues :
       \E fromDate \in PackageDates, toDate \in PackageDates :
         getPackagesCodelistChanges(codelistUid, catalogueName, fromDate, toDate)
  \/ \E options \in OptionSets : getCodelists(options)
  \/ \E codelistUid \in CodelistUids, options \in OptionSets :
       getCodelistTermsAttributes(codelistUid, options)
  \/ \E params \in OptionSets : getCodelistTerms(params)
  \/ \E params \in OptionSets : getCodelistTermsNames(params)
  \/ \E codelistUid \in CodelistUids, termUid \in TermUids :
       addTermToCodelist(codelistUid, termUid)
  \/ \E r \in pending : HttpFulfilled(r)
  \/ \E r \in pending : HttpRejected(r)

SpecClient == InitClient /\ [][NextClient]_vars

----------------------------------------------------------------------------
(* Properties of the resource client *)

\* the list/get operations that take filter parameters
ListOperations ==
  {"getPackages", "getPackagesDates", "getPackagesChanges",
   "getPackagesCodelistChanges", "getCodelists", "getCodelistTerms",
   "getCodelistTermsNames", "getCodelistTermsAttributes"}

\* the filter parameters an operation was given, as a query-parameter
\* mapping: a mapping argument as it is, positional arguments under their
\* query names
GivenParams(op, arg) ==
  CASE op \in {"getPackagesDates"} -> [catalogue_name |-> arg.catalogueName]
    [] op \in {"getPackagesChanges", "getPackagesCodelistChanges"} ->
         [catalogue_name |-> arg.catalogueName, old_package_date |-> arg.fromDate,
          new_package_date |-> arg.toDate]
    [] op = "getCodelistTermsAttributes" ->
         [k \in DOMAIN arg.options \cup {"codelist_uid"} |->
            IF k = "codelist_uid" THEN arg.codelistUid ELSE arg.options[k]]
    [] OTHER -> arg

\* C12 (as stated): every list/get operation other than getSponsorPackages
\* issues one GET whose query parameters are the filter parameters it was
\* given, unchanged; getCodelists(options) issues GET ct/codelists with
\* params equal to options, whatever the page_size.
C12_ForwardsUnchanged ==
  [][\A op \in ListOperations :
       Invoked(op)
         => \E r \in pending' \ pending :
              /\ pending' = pending \cup {r}
              /\ r.method = "get"
              /\ op = "getCodelists" => r.url = <<"ct", "codelists">>
              /\ r.params = GivenParams(op, call'.arg)]_vars

\* C12 (amended): ... unchanged, except that getCodelists sends page_size
\* 1000 when it was given page_size -1 (its other parameters unchanged).
C12_ForwardsExceptAllPages ==
  [][\A op \in ListOperations :
       Invoked(op)
         => \E r \in pending' \ pending :
              /\ pending' = pending \cup {r}
              /\ r.method = "get"
              /\ r.data = Null
              /\ op = "getCodelists" => r.url = <<"ct", "codelists">>
              /\ r.params =
                   IF /\ op = "getCodelists"
                      /\ "page_size" \in DOMAIN call'.arg
                      /\ call'.arg.page_size = -1
                   THEN [call'.arg EXCEPT !.page_size = 1000]
                   ELSE GivenParams(op, call'.arg)]_vars

\* getCodelists({page_size: -1}) has just issued its call, with page_size 1000
C12_Witness ==
  /\ call.op = "getCodelists" /\ last.op = "call"
  /\ call.arg = [page_size |-> -1]
  /\ \E r \in call.issued \cap pending :
       r.url = <<"ct", "codelists">> /\ r.params = [page_size |-> 1000]

\* C13: getSponsorPackages() issues exactly one call, a GET on ct/packages
\* with query parameters exactly {catalogue: 'SDTM CT', sponsor_only: true},
\* whatever was called before: the request getPackages issues when given
\* those two parameters.
C13_SponsorPackagesRequest ==
  [][Invoked("getSponsorPackages")
       => \E r \in pending' \ pending :
            /\ pending' = pending \cup {r}
            /\ r.method = "get"
            /\ r.url = <<"ct", "packages">>
            /\ DOMAIN r.params = {"catalogue", "sponsor_only"}
            /\ r.params.catalogue = "SDTM CT"
            /\ r.params.sponsor_only = TRUE
            /\ r = ClientRequest("getPackages",
                                 [catalogue |-> "SDTM CT", sponsor_only |-> TRUE],
                                 r.id)]_vars

\* getSponsorPackages() called while a getPackages call with other
\* parameters is in flight
C13_Witness ==
  /\ call.op = "getSponsorPackages" /\ last.op = "call"
  /\ \E r \in call.issued \cap pending :
       r.params = [catalogue |-> "SDTM CT", sponsor_only |-> TRUE]
  /\ \E r \in pending \ call.issued :
       r.url = <<"ct", "packages">> /\ r.params = [library |-> "Sponsor"]

\* C14: for every codelistUid and termUid, addTermToCodelist issues exactly
\* one call, a POST on ct/codelists/{codelistUid}/terms whose body has
\* term_uid = termUid and order = 999999.
C14_AddTermSentinelOrder ==
  [][Invoked("addTermToCodelist")
       => \E r \in pending' \ pending :
            /\ pending' = pending \cup {r}
            /\ r.method = "post"
            /\ r.url = <<"ct", "codelists", call'.arg.codelistUid, "terms">>
            /\ DOMAIN r.data = {"term_uid", "order"}
            /\ r.data.term_uid = call'.arg.termUid
            /\ r.data.order = 999999]_vars

\* addTermToCodelist('CTCodelist_000001', 'CTTerm_000002') has issued its call
C14_Witness ==
  /\ call.op = "addTermToCodelist" /\ last.op = "call"
  /\ call.arg = [codelistUid |-> "CTCodelist_000001", termUid |-> "CTTerm_000002"]
  /\ \E r \in call.issued \cap pending :
       /\ r.url = <<"ct", "codelists", "CTCodelist_000001", "terms">>
       /\ r.data = [term_uid |-> "CTTerm_000002", order |-> 999999]

----------------------------------------------------------------------------
(* Selections that overlap: only selectStudy is called and every call that  *)
(* is answered succeeds                                                      *)

NextSelect ==
  \/ \E studyObj \in StudyObjs, forceReload \in BOOLEAN :
       SelectStudy(studyObj, forceReload)
  \/ \E r \in pending : \E data \in StudyResponses(r) : StudyFulfilled(r, data)
  \/ Reload

SpecSelect == Init /\ [][NextSelect]_vars

\* what the server answers for study uid on the preference resource api
PreferenceData(api, uid) ==
  StudyResponses(Request(0, api, uid, Null, FALSE, "detached"))

\* C15: after any sequence of selectStudy calls, once every call in flight
\* has been answered successfully, studyPreferredTimeUnit,
\* soaPreferredTimeUnit and soaPreferences hold the answers for the study
\* that is now selected, whatever the order of the answers.
C15_PreferencesFollowSelection ==
  (/\ call.op = "selectStudy" /\ ~call.threw
   /\ ~reloading
   /\ state.selectedStudy \in Studies
   /\ pending = {})
    => /\ state.studyPreferredTimeUnit
            \in PreferenceData("study.getStudyPreferredTimeUnit", state.selectedStudy.uid)
       /\ state.soaPreferredTimeUnit
            \in PreferenceData("study.getSoAPreferredTimeUnit", state.selectedStudy.uid)
       /\ state.soaPreferences
            \in PreferenceData("study.getSoAPreferences", state.selectedStudy.uid)

====
